---- MODULE Spec2Model ----
(***************************************************************************)
(* The report page of src/web/src/app/page.tsx.                            *)
(*                                                                         *)
(* The module body of page.tsx maps the constant descriptor list baseTasks *)
(* to the list tasks by reading one file per descriptor with               *)
(* fs.readFileSync(path, "utf8"); the exported component Home() renders    *)
(* the header and one card per element of tasks.  The files live on a      *)
(* filesystem that other processes may change at any moment, and the       *)
(* rendered page has one <details> widget per card that the viewer may     *)
(* open and close in the browser.                                          *)
(*                                                                         *)
(* Text read from a file is a sequence of code points; a file's content is *)
(* a sequence of bytes.  Display strings of the descriptors are TLA+       *)
(* strings.                                                                *)
(***************************************************************************)
EXTENDS Integers, Sequences, FiniteSets, TLC

VARIABLES
    files,      \* the filesystem: path -> [errno, bytes]; errno "" is a readable file
    baseTasks,  \* the descriptor array (page.tsx:14), a mutable JS array
    pc,         \* module evaluation: "mapping" | "loaded" | "failed"
    acc,        \* the array baseTasks.map is building (page.tsx:39)
    tasks,      \* the module constant tasks (page.tsx:39); <<>> until assigned
    fsLog,      \* the fs.readFileSync calls made so far: path and outcome
    docs,       \* the documents returned by the calls of Home(), in order
    open        \* the open state of the <details> widgets of the page shown

vars == <<files, baseTasks, pc, acc, tasks, fsLog, docs, open>>

\* Number of calls of Home() explored.
MaxRenders == 2

-----------------------------------------------------------------------------
(* The descriptor list, page.tsx:14-37.                                    *)

BaseTasksDuplicateId ==
    << [ id |-> "task-1",
         title |-> "Task 1 · Largest Number Using Nested If",
         aim |-> "Determine the largest of three numbers with nested if statements.",
         highlights |-> <<
           "Demonstrates conditional control flow without helper utilities.",
           "Prints the evaluated numbers and the detected maximum.",
           "Relies strictly on nested branching for the decision path." >>,
         program |-> "task1_largest.php" ],
       [ id |-> "task-1",
         title |-> "Task 2 · Reverse String with strrev()",
         aim |-> "Reverse a string using PHP's strrev() function.",
         highlights |-> <<
           "Uses PHP's built-in string helper directly.",
           "Displays both original and reversed strings for validation.",
           "Keeps the input deterministic for the documented screenshot." >>,
         program |-> "task2_reverse.php" ] >>

BaseTasksRepeatedHighlight ==
    << [ id |-> "task-1",
         title |-> "Task 1 · Largest Number Using Nested If",
         aim |-> "Determine the largest of three numbers with nested if statements.",
         highlights |-> <<
           "Demonstrates conditional control flow without helper utilities.",
           "Prints the evaluated numbers and the detected maximum.",
           "Relies strictly on nested branching for the decision path." >>,
         program |-> "task1_largest.php" ],
       [ id |-> "task-2",
         title |-> "Task 2 · Reverse String with strrev()",
         aim |-> "Reverse a string using PHP's strrev() function.",
         highlights |-> <<
           "Uses PHP's built-in string helper directly.",
           "Displays both original and reversed strings for validation.",
           "Uses PHP's built-in string helper directly." >>,
         program |-> "task2_reverse.php" ] >>

BaseTasks ==
    << [ id |-> "task-1",
         title |-> "Task 1 · Largest Number Using Nested If",
         aim |-> "Determine the largest of three numbers with nested if statements.",
         highlights |-> <<
           "Demonstrates conditional control flow without helper utilities.",
           "Prints the evaluated numbers and the detected maximum.",
           "Relies strictly on nested branching for the decision path." >>,
         program |-> "task1_largest.php" ],
       [ id |-> "task-2",
         title |-> "Task 2 · Reverse String with strrev()",
         aim |-> "Reverse a string using PHP's strrev() function.",
         highlights |-> <<
           "Uses PHP's built-in string helper directly.",
           "Displays both original and reversed strings for validation.",
           "Keeps the input deterministic for the documented screenshot." >>,
         program |-> "task2_reverse.php" ] >>

-----------------------------------------------------------------------------
(* The filesystem.                                                         *)

\* process.cwd(), page.tsx:40.
Cwd == "cwd"

\* path.join(process.cwd(), "php", task.program), page.tsx:40.
filePathOfFirst(task) == <<Cwd, "php", BaseTasks[1].program>>

filePath(task) == <<Cwd, "php", task.program>>

Paths == { <<Cwd, "php", BaseTasks[i].program>> : i \in DOMAIN BaseTasks }

\* Why fs.readFileSync throws: no such file, or no permission to read it.
Errnos == {"ENOENT", "EACCES"}

\* File contents explored, as bytes: empty; "A"; " A\n" (surrounding white
\* space); C3 A9 (the two-byte encoding of U+00E9); FF 41 (FF is never valid
\* in UTF-8); 41 C3 (a truncated two-byte sequence).  No content holds a lead
\* byte of a three- or four-byte sequence (E0..F4).
Contents ==
    { <<>>, <<65>>, <<32, 65, 10>>, <<195, 169>>, <<255, 65>>, <<65, 195>> }

FileStates ==
    { [ errno |-> "", bytes |-> c ] : c \in Contents }
    \cup { [ errno |-> e, bytes |-> <<>> ] : e \in Errnos }

\* Whether a result of readFileSync is an exception.
IsError(r) == r.errno # ""

-----------------------------------------------------------------------------
(* Decoding, page.tsx:41: the "utf8" argument makes readFileSync return    *)
(* buffer.toString("utf8").  An ASCII byte is its code point; a lead byte  *)
(* C2..DF followed by a continuation byte 80..BF is one code point; any    *)
(* other byte is replaced by U+FFFD and decoding resumes at the next byte. *)
(* Nothing is trimmed and a byte order mark is kept.                       *)

IsContinuation(b) == b >= 128 /\ b <= 191

IsLead2(b) == b >= 194 /\ b <= 223

RECURSIVE Utf8DecodeFrom(_, _)
Utf8DecodeFrom(bytes, i) ==
    IF i > Len(bytes) THEN <<>>
    ELSE IF bytes[i] < 128
         THEN <<bytes[i]>> \o Utf8DecodeFrom(bytes, i + 1)
    ELSE IF IsLead2(bytes[i]) /\ i < Len(bytes) /\ IsContinuation(bytes[i + 1])
         THEN <<(bytes[i] - 192) * 64 + (bytes[i + 1] - 128)>>
              \o Utf8DecodeFrom(bytes, i + 2)
    ELSE <<65533>> \o Utf8DecodeFrom(bytes, i + 1)

Utf8Decode(bytes) == Utf8DecodeFrom(bytes, 1)

\* fs.readFileSync(filePath, "utf8"), page.tsx:41: the decoded content, or the
\* errno of the exception it throws.
readFileSync(path) ==
    IF files[path].errno # ""
    THEN [ errno |-> files[path].errno, text |-> <<>> ]
    ELSE [ errno |-> "", text |-> Utf8Decode(files[path].bytes) ]

\* { ...task, code }, page.tsx:42: a new object with the descriptor's own
\* properties and the text read.
SpreadTitleAsAim(task, code) ==
    [ id |-> task.id, title |-> task.title, aim |-> task.title,
      highlights |-> task.highlights, program |-> task.program, code |-> code ]

Spread(task, code) ==
    [ id |-> task.id, title |-> task.title, aim |-> task.aim,
      highlights |-> task.highlights, program |-> task.program, code |-> code ]

-----------------------------------------------------------------------------
(* Module evaluation, page.tsx:39-43: baseTasks.map calls the callback     *)
(* once per descriptor, in index order.  One step is one call: it reads    *)
(* the descriptor's file and appends the new record to the array being     *)
(* built.  An exception of readFileSync leaves the callback and map, so    *)
(* the array is dropped, tasks is never assigned and Home is never         *)
(* exported.  The call for the last descriptor also assigns tasks.  Other  *)
(* processes may change the files between two calls.                       *)

LoadStepWithFallback ==
    /\ pc = "mapping"
    /\ LET task == baseTasks[Len(acc) + 1]
           path == filePath(task)
           read == readFileSync(path)
           next == Append(acc, Spread(task, read.text))
       IN  /\ fsLog' = Append(fsLog, [path |-> path, result |-> files[path]])
           /\ acc' = next
           /\ IF Len(next) = Len(baseTasks)
              THEN pc' = "loaded" /\ tasks' = next
              ELSE pc' = pc /\ tasks' = tasks
    /\ UNCHANGED <<files, baseTasks, docs, open>>

LoadStepInPlace ==
    /\ pc = "mapping"
    /\ LET i    == Len(acc) + 1
           task == baseTasks[i]
           path == filePath(task)
           read == readFileSync(path)
       IN  /\ fsLog' = Append(fsLog, [path |-> path, result |-> files[path]])
           /\ IF IsError(read)
              THEN pc' = "failed" /\ acc' = <<>> /\ tasks' = tasks
                   /\ baseTasks' = baseTasks
              ELSE LET next == Append(acc, Spread(task, read.text))
                   IN  /\ acc' = next
                       /\ baseTasks' = [baseTasks EXCEPT ![i] = Spread(task, read.text)]
                       /\ IF Len(next) = Len(baseTasks)
                          THEN pc' = "loaded" /\ tasks' = next
                          ELSE pc' = pc /\ tasks' = tasks
    /\ UNCHANGED <<files, docs, open>>

LoadStep ==
    /\ pc = "mapping"
    /\ LET task == baseTasks[Len(acc) + 1]
           path == filePath(task)
           read == readFileSync(path)
       IN  /\ fsLog' = Append(fsLog, [path |-> path, result |-> files[path]])
           /\ IF IsError(read)
              THEN pc' = "failed" /\ acc' = <<>> /\ tasks' = tasks
              ELSE LET next == Append(acc, Spread(task, read.text))
                   IN  /\ acc' = next
                       /\ IF Len(next) = Len(baseTasks)
                          THEN pc' = "loaded" /\ tasks' = next
                          ELSE pc' = pc /\ tasks' = tasks
    /\ UNCHANGED <<files, baseTasks, docs, open>>

-----------------------------------------------------------------------------
(* Home(), page.tsx:45-98: the document it returns.                        *)

\* <section className={styles.header}>, page.tsx:49-70.
Header ==
    [ h1 |-> "PHP Programming Task Report",
      links |-> << [ href |-> "/task-report.pdf", text |-> "Download Report",
                     target |-> "" ],
                   [ href |-> "/task-report.pdf", text |-> "Open Report in Browser",
                     target |-> "_blank" ] >> ]

\* <ul className={styles.highlightList}>, page.tsx:80-84.
HighlightList(task) ==
    [ j \in DOMAIN task.highlights |->
        [ key |-> task.highlights[j], text |-> task.highlights[j] ] ]

\* <details className={styles.codeBlock}>, page.tsx:85-90: no open attribute,
\* so the widget is rendered closed.
Details(task) ==
    [ summary |-> "Show Program", open |-> FALSE, code |-> task.code ]

\* <li key={task.id} className={styles.taskCard}>, page.tsx:75-91.
TaskCardFirstLine(task) ==
    [ key |-> task.id, h3 |-> task.title, aim |-> task.aim,
      highlights |-> HighlightList(task),
      details |-> [ Details(task) EXCEPT
                      !.code = SubSeq(task.code, 1, IF Len(task.code) > 0 THEN 1 ELSE 0) ] ]

TaskCard(task) ==
    [ key |-> task.id, h3 |-> task.title, aim |-> task.aim,
      highlights |-> HighlightList(task),
      details |-> Details(task) ]

\* A Home that reads the files again in each call.
HomeReadingFiles ==
    [ header |-> Header,
      h2 |-> "Included Tasks",
      cards |-> [ i \in DOMAIN baseTasks |->
                    TaskCard(Spread(baseTasks[i], readFileSync(filePath(baseTasks[i])).text)) ] ]

\* A Home that numbers its calls.
HomeNumbered ==
    [ header |-> Header,
      h2 |-> "Included Tasks",
      visit |-> Len(docs) + 1,
      cards |-> [ i \in DOMAIN tasks |-> TaskCard(tasks[i]) ] ]

Home ==
    [ header |-> Header,
      h2 |-> "Included Tasks",
      cards |-> [ i \in DOMAIN tasks |-> TaskCard(tasks[i]) ] ]

\* One call of Home() by the host, possible once the module is evaluated; the
\* document is sent to the viewer, whose page shows each widget as rendered.
Render ==
    /\ pc = "loaded"
    /\ Len(docs) < MaxRenders
    /\ docs' = Append(docs, Home)
    /\ open' = [ i \in DOMAIN Home.cards |-> Home.cards[i].details.open ]
    /\ UNCHANGED <<files, baseTasks, pc, acc, tasks, fsLog>>

\* The viewer opens or closes the <details> widget of card i, page.tsx:85-90.
\* The element has no event handler and the page no client code.
ToggleAccordion(i) ==
    /\ i \in DOMAIN open
    /\ open' = [ j \in DOMAIN open |-> IF j = i THEN ~open[i] ELSE FALSE ]
    /\ UNCHANGED <<files, baseTasks, pc, acc, tasks, fsLog, docs>>

Toggle(i) ==
    /\ i \in DOMAIN open
    /\ open' = [ open EXCEPT ![i] = ~open[i] ]
    /\ UNCHANGED <<files, baseTasks, pc, acc, tasks, fsLog, docs>>

\* Another process writes, removes or protects a file.
EnvChange(p, s) ==
    /\ s # files[p]
    /\ files' = [ files EXCEPT ![p] = s ]
    /\ UNCHANGED <<baseTasks, pc, acc, tasks, fsLog, docs, open>>

-----------------------------------------------------------------------------

Init ==
    /\ files \in [ Paths -> FileStates ]
    /\ baseTasks = BaseTasks
    /\ pc = "mapping"
    /\ acc = <<>>
    /\ tasks = <<>>
    /\ fsLog = <<>>
    /\ docs = <<>>
    /\ open = <<>>

Next ==
    \/ LoadStep
    \/ Render
    \/ \E i \in DOMAIN open : Toggle(i)
    \/ \E p \in Paths, s \in FileStates : EnvChange(p, s)

Spec == Init /\ [][Next]_vars

-----------------------------------------------------------------------------
(* Vocabulary of the properties.                                           *)

Range(f) == { f[x] : x \in DOMAIN f }

\* The path of the file the descriptor at index i names.
OwnPath(i) == <<Cwd, "php", BaseTasks[i].program>>

\* The UTF-8 encoding of a sequence of code points below 65536.
RECURSIVE Utf8Encode(_)
Utf8Encode(text) ==
    IF text = <<>> THEN <<>>
    ELSE LET c == Head(text)
         IN  (IF c < 128 THEN <<c>>
              ELSE IF c < 2048 THEN <<192 + (c \div 64), 128 + (c % 64)>>
              ELSE <<224 + (c \div 4096), 128 + ((c \div 64) % 64), 128 + (c % 64)>>)
             \o Utf8Encode(Tail(text))

\* Whether a byte sequence is well-formed UTF-8 made of one- and two-byte
\* sequences.
RECURSIVE ValidUtf8(_)
ValidUtf8(bytes) ==
    IF bytes = <<>> THEN TRUE
    ELSE IF Head(bytes) < 128 THEN ValidUtf8(Tail(bytes))
    ELSE /\ IsLead2(Head(bytes))
         /\ Len(bytes) >= 2
         /\ IsContinuation(bytes[2])
         /\ ValidUtf8(Tail(Tail(bytes)))

Readable(p) == files[p].errno = ""

\* The step is a call of Home().
RenderStep == Len(docs') = Len(docs) + 1

\* The step is a call of the map callback that returned a record.
RecordStep == Len(acc') = Len(acc) + 1

PairwiseDistinct(seq) ==
    \A i, j \in DOMAIN seq : i # j => seq[i] # seq[j]

-----------------------------------------------------------------------------
(* C1.  If a descriptor's file is missing or unreadable when it is read,   *)
(* building the records fails and so does the whole render: no record list *)
(* exists (tasks is never assigned and the array under construction is     *)
(* dropped), no document and no card is ever produced, also not for the    *)
(* descriptors whose files were read, and the failed read is the last read *)
(* made: it is not retried.                                                *)
C1_MissingSourceFailsWholeRender ==
    \A k \in DOMAIN fsLog :
        fsLog[k].result.errno # ""
        => /\ pc = "failed"
           /\ tasks = <<>>
           /\ acc = <<>>
           /\ docs = <<>>
           /\ open = <<>>
           /\ k = Len(fsLog)

\* The second file failed after the first was read, and both files have been
\* readable again since.
C1_Witness ==
    /\ pc = "failed"
    /\ Len(fsLog) = 2
    /\ fsLog[1].result.errno = ""
    /\ fsLog[2].result.errno = "ENOENT"
    /\ \A p \in Paths : Readable(p)

-----------------------------------------------------------------------------
-----------------------------------------------------------------------------
(* C3.  When every file was readable, the list assigned to tasks has the   *)
(* length of the descriptor list and the record at each index carries the  *)
(* id, title, aim, highlights and program of the descriptor at that index. *)
C3_RecordsKeepDescriptors ==
    pc = "loaded"
    => /\ Len(tasks) = Len(BaseTasks)
       /\ \A i \in DOMAIN BaseTasks :
             /\ {"id", "title", "aim", "highlights", "program"} \subseteq DOMAIN tasks[i]
             /\ tasks[i].id = BaseTasks[i].id
             /\ tasks[i].title = BaseTasks[i].title
             /\ tasks[i].aim = BaseTasks[i].aim
             /\ tasks[i].highlights = BaseTasks[i].highlights
             /\ tasks[i].program = BaseTasks[i].program

C3_Witness ==
    /\ pc = "loaded"
    /\ Len(tasks) = 2
    /\ \A k \in DOMAIN fsLog : fsLog[k].result.errno = ""

-----------------------------------------------------------------------------
(* C4, as claimed.  The text of every record produced is the exact content *)
(* of the file at the record's own path: encoded again it gives the bytes  *)
(* of the file.                                                            *)
C4_SourceTextIsExactContent ==
    [][ RecordStep
        => LET i == Len(acc')
           IN  /\ Readable(OwnPath(i))
               /\ Utf8Encode(acc'[i].code) = files[OwnPath(i)].bytes ]_vars

(* C4, amended.  The text of every record produced is read from the file   *)
(* at the record's own path, never from another descriptor's file.  When   *)
(* the content is well-formed UTF-8 the text is that exact content, with   *)
(* nothing trimmed; otherwise the text holds U+FFFD in place of the bytes  *)
(* that are not part of a well-formed sequence.                            *)
C4_SourceTextIsDecodedOwnFile ==
    [][ RecordStep
        => LET i     == Len(acc')
               bytes == files[OwnPath(i)].bytes
           IN  /\ Readable(OwnPath(i))
               /\ fsLog'[Len(fsLog')].path = OwnPath(i)
               /\ acc'[i].program = BaseTasks[i].program
               /\ IF ValidUtf8(bytes)
                  THEN Utf8Encode(acc'[i].code) = bytes
                  ELSE /\ 65533 \in Range(acc'[i].code)
                       /\ Len(acc'[i].code) <= Len(bytes) ]_vars

\* One record holds a replaced byte, the other kept its white space.
C4_Witness ==
    /\ pc = "loaded"
    /\ tasks[1].code = <<65533, 65>>
    /\ tasks[2].code = <<32, 65, 10>>

-----------------------------------------------------------------------------
(* C5.  Home() is deterministic: tasks being the same in every call, all   *)
(* the documents returned are equal, however many calls came before,       *)
(* whatever the files hold at the time and whatever the viewer did.        *)
C5_RenderIsDeterministic ==
    \A i, j \in DOMAIN docs : docs[i] = docs[j]

\* Two documents, with a widget opened and a file changed in between.
C5_Witness ==
    /\ Len(docs) >= 2
    /\ \E i \in DOMAIN open : open[i]
    /\ \E i \in DOMAIN fsLog : files[fsLog[i].path] # fsLog[i].result

-----------------------------------------------------------------------------
(* C6.  Every document holds exactly one card per record, in the order of  *)
(* the records: two cards, for task-1 and task-2; each card shows the      *)
(* title of its own record and, in its widget, the whole text of its own   *)
(* record.                                                                 *)
C6_OneCardPerRecord ==
    \A d \in DOMAIN docs :
        /\ Len(docs[d].cards) = Len(tasks)
        /\ Len(docs[d].cards) = 2
        /\ docs[d].cards[1].key = "task-1"
        /\ docs[d].cards[2].key = "task-2"
        /\ \A i \in DOMAIN tasks :
              /\ docs[d].cards[i].key = tasks[i].id
              /\ docs[d].cards[i].h3 = tasks[i].title
              /\ docs[d].cards[i].details.code = tasks[i].code

\* A document whose cards hold texts of more than one character.
C6_Witness ==
    /\ docs # <<>>
    /\ \A i \in DOMAIN tasks : Len(tasks[i].code) >= 2
    /\ tasks[1].code # tasks[2].code

-----------------------------------------------------------------------------
(* C7.  The ids of the descriptors are pairwise distinct, and so are the   *)
(* ids of the records and the keys of the cards of every document.         *)
C7_IdsAreDistinct ==
    /\ PairwiseDistinct([ i \in DOMAIN baseTasks |-> baseTasks[i].id ])
    /\ PairwiseDistinct([ i \in DOMAIN acc |-> acc[i].id ])
    /\ PairwiseDistinct([ i \in DOMAIN tasks |-> tasks[i].id ])
    /\ \A d \in DOMAIN docs :
          PairwiseDistinct([ i \in DOMAIN docs[d].cards |-> docs[d].cards[i].key ])

C7_Witness ==
    /\ Len(tasks) = 2
    /\ Len(docs) = 1
    /\ Len(docs[1].cards) = 2

-----------------------------------------------------------------------------
(* C8.  Building the records and rendering change neither the descriptor   *)
(* list nor the files: after every step the descriptor list is the list    *)
(* as written (same entries, same order, no code property added), and a    *)
(* step that reads a file, renders or toggles a widget leaves every file   *)
(* as it was.                                                              *)
C8_DescriptorsAndFilesUntouched ==
    [][ /\ baseTasks' = BaseTasks
        /\ (fsLog' # fsLog \/ pc' # pc \/ docs' # docs \/ open' # open)
           => files' = files ]_vars

\* Both outcomes of a build: one that failed, and one followed by renders.
C8_Witness ==
    \/ pc = "failed" /\ Len(fsLog) = 1 /\ baseTasks = BaseTasks
    \/ pc = "loaded" /\ Len(docs) >= 2 /\ baseTasks = BaseTasks

-----------------------------------------------------------------------------
(* C9.  Every widget is closed in the page a call of Home() produces, one  *)
(* widget per card.  A step that changes the open state of a widget and is *)
(* no call of Home() is the viewer's toggle of one card: it changes the    *)
(* open state of exactly that widget; the other widgets, the records, the  *)
(* documents and their texts stay as they are, no file is read and Home()  *)
(* is not called.                                                          *)
C9_ToggleIsLocal ==
    [][ /\ RenderStep
           => /\ DOMAIN open' = DOMAIN docs'[Len(docs')].cards
              /\ \A i \in DOMAIN open' : open'[i] = FALSE
        /\ (open' # open /\ ~RenderStep)
           => /\ DOMAIN open' = DOMAIN open
              /\ Cardinality({ i \in DOMAIN open : open'[i] # open[i] }) = 1
              /\ UNCHANGED <<files, baseTasks, pc, acc, tasks, fsLog, docs>> ]_vars

\* The first widget is open and the second closed.
C9_Witness ==
    /\ Len(open) = 2
    /\ open[1]
    /\ ~open[2]
    /\ docs # <<>>

-----------------------------------------------------------------------------
(* C10.  Within every descriptor the highlight strings are pairwise        *)
(* distinct; every card lists the highlights of its descriptor in their    *)
(* order, each item keyed by its own text, so the keys are distinct within *)
(* a card.                                                                 *)
C10_HighlightKeysAreDistinct ==
    /\ \A i \in DOMAIN baseTasks : PairwiseDistinct(baseTasks[i].highlights)
    /\ \A d \in DOMAIN docs : \A i \in DOMAIN docs[d].cards :
          LET items == docs[d].cards[i].highlights
          IN  /\ Len(items) = Len(baseTasks[i].highlights)
              /\ \A j \in DOMAIN items :
                    /\ items[j].text = baseTasks[i].highlights[j]
                    /\ items[j].key = items[j].text
              /\ PairwiseDistinct([ j \in DOMAIN items |-> items[j].key ])

C10_Witness ==
    /\ docs # <<>>
    /\ \A i \in DOMAIN docs[1].cards : Len(docs[1].cards[i].highlights) = 3

====
